---- MODULE Spec2Model ----
(***************************************************************************)
(* A model of xshell-venv (src/src/lib.rs): the environment directory      *)
(* resolver (find_directory), the environment builder (create_venv, with   *)
(* its advisory file lock), the scoped environment handle (VirtualEnv,     *)
(* a vector of xshell PushEnv guards) and the command facade (run,         *)
(* run_module, pip_install, pip_upgrade).                                  *)
(*                                                                         *)
(* Four specifications share the variables:                                *)
(*   Spec     concurrent callers of create_venv racing on the lock file    *)
(*   SpecEnv  one Shell and the handles activated and dropped on it        *)
(*   SpecCmd  one Shell and the commands spawned through its handles       *)
(*   SpecDir  find_directory over the process environment                  *)
(*   SpecGuess  guess_python over the answers of the host's interpreters   *)
(*   FairSpec   Spec with every caller and the lock making progress        *)
(***************************************************************************)
EXTENDS Naturals, Sequences, FiniteSets, TLC

VARIABLES
    platform,   \* "unix" | "windows": which cfg variant was compiled
    procEnv,    \* the process environment (std::env), never written by the library
    fs,         \* per venv path: what exists on disk
    lockHolder, \* per venv path: the caller holding the exclusive lock, 0 if free
    pc,         \* per caller: position inside create_venv
    target,     \* per caller: the path argument of its current call
    python,     \* per caller: the interpreter name guess_python returned
    result,     \* per caller: how its last call ended
    cmds,       \* per caller: the commands its current/last call spawned, in order
    heldAtCheck,\* per caller: did it hold the lock when it tested pybin.exists()
    bootOk,     \* per caller: did the bootstrap command of its call exit zero
    calls,      \* number of create_venv calls started so far (by with_path)
    afterBuilt, \* per caller: did its call start after a build of its path returned Ok
    built,      \* paths for which some call returned Ok after building
    overlap,    \* paths on which two callers were inside create_venv at once
    nBootstrap, \* per path: bootstrap commands executed
    anyFailure, \* has any filesystem operation or external command failed so far
    shellEnv,   \* the Shell's own environment overlay (xshell Shell::env)
    handles,    \* the VirtualEnv values created on the shell, in creation order
    lifo,       \* have all drops so far been of the newest live handle
    lastOp,     \* the last operation performed on the shell
    lastCmd,    \* the last process spawned through the shell
    resolved,   \* the find_directory calls made so far: [name, path]
    guess       \* the host's answers to the probes, and what guess_python returned

buildVars == <<fs, lockHolder, pc, target, python, result, cmds, heldAtCheck,
               bootOk, calls, afterBuilt, built, overlap, nBootstrap, anyFailure>>
envVars == <<shellEnv, handles, lifo, lastOp, lastCmd>>
vars == <<platform, procEnv, buildVars, envVars, resolved, guess>>

(***************************************************************************)
(* Bounds of the model.                                                    *)
(***************************************************************************)
NumCallers == 2
MaxCalls == 2
MaxActivations == 2

(***************************************************************************)
(* Option values (Rust's Option / a variable being set or absent).         *)
(***************************************************************************)
None == [some |-> FALSE]
Some(v) == [some |-> TRUE, val |-> v]

(***************************************************************************)
(* Paths are sequences of components; an absolute path starts with the     *)
(* root component "/".  The empty sequence is the empty path "".           *)
(***************************************************************************)
Root == "/"
IsAbsolute(p) == Len(p) > 0 /\ p[1] = Root

\* std::path::Path::parent: None for the empty path and for the root,
\* otherwise the path without its last component ("a" has the parent "").
parent(p) ==
    IF p = <<>> \/ p = <<Root>> THEN None
    ELSE Some(SubSeq(p, 1, Len(p) - 1))

\* Option::and_then(|p| p.parent())
and_then_parent(o) == IF o.some THEN parent(o.val) ELSE None

\* PathBuf::push / Path::join of one relative component.
join(p, c) == Append(p, c)

\* std::env::temp_dir on unix: $TMPDIR, else /tmp.
temp_dir(env) ==
    IF env["TMPDIR"].some THEN env["TMPDIR"].val ELSE <<Root, "tmp">>

\* A resolver that consults OUT_DIR before CARGO_TARGET_DIR.
find_directory_outdir_first(env, name) ==
    LET out3 == and_then_parent(and_then_parent(and_then_parent(env["OUT_DIR"])))
        venv_dir ==
            IF out3.some THEN out3.val
            ELSE IF env["CARGO_TARGET_DIR"].some THEN env["CARGO_TARGET_DIR"].val
            ELSE IF env["CARGO_MANIFEST_DIR"].some
                 THEN join(env["CARGO_MANIFEST_DIR"].val, "target")
            ELSE temp_dir(env)
    IN join(venv_dir, "venv-" \o name)

\* A resolver that forgets the name.
find_directory_no_name(env, name) ==
    LET out3 == and_then_parent(and_then_parent(and_then_parent(env["OUT_DIR"])))
        venv_dir ==
            IF env["CARGO_TARGET_DIR"].some THEN env["CARGO_TARGET_DIR"].val
            ELSE IF out3.some THEN out3.val
            ELSE IF env["CARGO_MANIFEST_DIR"].some
                 THEN join(env["CARGO_MANIFEST_DIR"].val, "target")
            ELSE temp_dir(env)
    IN join(venv_dir, "venv-")

\* fn find_directory(name: &str) -> PathBuf
find_directory(env, name) ==
    LET out3 == and_then_parent(and_then_parent(and_then_parent(env["OUT_DIR"])))
        venv_dir ==
            IF env["CARGO_TARGET_DIR"].some THEN env["CARGO_TARGET_DIR"].val
            ELSE IF out3.some THEN out3.val
            ELSE IF env["CARGO_MANIFEST_DIR"].some
                 THEN join(env["CARGO_MANIFEST_DIR"].val, "target")
            ELSE temp_dir(env)
    IN join(venv_dir, "venv-" \o name)

(***************************************************************************)
(* The environment builder.                                                *)
(***************************************************************************)
Callers == 1..NumCallers
PathA == <<Root, "tmp", "venv-a">>
PathB == <<Root, "tmp", "venv-b">>
PathRel == <<"target", "venv-rel">>
BuildPaths == {PathA, PathB}

\* What the code and the tools it runs read of a venv path on disk:
\* bin/python, Scripts/python.exe, and pip.  (The directory itself and the
\* lock file xshell-venv.lock are created by every call and read by none.)
EmptyDir == [pybin |-> FALSE, scripts |-> FALSE, pip |-> FALSE]

\* What the probes of a host answer: does `python3 --version` exit zero, and
\* what does `python --version` print ("none": the command fails).
Hosts == [python3 : BOOLEAN, python : {"none", "py2", "py3"},
          python3exe : BOOLEAN, pythonexe : {"none", "py2", "py3"}]

\* A detection that takes python and python.exe whenever their probe runs,
\* whatever version it prints.
guess_python_any_python(plat, h) ==
    LET win == plat = "windows"
        p1 == IF win THEN <<"python3.exe --version">> ELSE <<>>
        p2 == p1 \o <<"python.exe --version">>
        p3 == (IF win THEN p2 ELSE <<>>) \o <<"python3 --version">>
        p4 == p3 \o <<"python --version">>
    IN IF win /\ h.python3exe THEN [res |-> Some("python3.exe"), probes |-> p1]
       ELSE IF win /\ h.pythonexe # "none"
            THEN [res |-> Some("python.exe"), probes |-> p2]
       ELSE IF h.python3 THEN [res |-> Some("python3"), probes |-> p3]
       ELSE IF h.python # "none" THEN [res |-> Some("python"), probes |-> p4]
       ELSE [res |-> None, probes |-> p4]

\* fn guess_python(sh: &Shell) -> Result<&'static str, Error>: the name found
\* (None: Err("couldn't find Python 3 in $PATH")) and the probes spawned.
guess_python(plat, h) ==
    LET win == plat = "windows"
        p1 == IF win THEN <<"python3.exe --version">> ELSE <<>>
        p2 == p1 \o <<"python.exe --version">>
        p3 == (IF win THEN p2 ELSE <<>>) \o <<"python3 --version">>
        p4 == p3 \o <<"python --version">>
    IN IF win /\ h.python3exe THEN [res |-> Some("python3.exe"), probes |-> p1]
       ELSE IF win /\ h.pythonexe = "py3"
            THEN [res |-> Some("python.exe"), probes |-> p2]
       ELSE IF h.python3 THEN [res |-> Some("python3"), probes |-> p3]
       ELSE IF h.python = "py3" THEN [res |-> Some("python"), probes |-> p4]
       ELSE [res |-> None, probes |-> p4]

\* No guess_python call is being followed on its own.
NoGuess == [called |-> FALSE]

\* let pybin = path.join("bin").join("python"); pybin.exists()
pybin_exists(d) == d.pybin

\* The embedded microvenv.py run on `path`: on success the environment's
\* bin/python exists (pip is skipped); a failed run may or may not have got
\* as far as creating it (partial).
microvenv(d, ok, partial) ==
    [d EXCEPT !.pybin = d.pybin \/ ok \/ partial]

\* `python -m venv path` on Windows: CPython's venv module puts the
\* interpreter at Scripts\python.exe (there is no bin\python) and, by default,
\* installs pip.
venv_windows(d, ok, partial) ==
    [d EXCEPT !.scripts = d.scripts \/ ok \/ partial, !.pip = d.pip \/ ok]

\* `{path}/bin/python -m ensurepip`
ensurepip(d, ok) == [d EXCEPT !.pip = d.pip \/ ok]

\* A lock that any number of callers may take at once.
CanAcquireShared(holder) == TRUE

\* RwLock::write on the lock file: exclusive, blocks while another holds it.
CanAcquire(holder) == holder = 0

InCall(c) == pc[c] # "idle"
Critical == {"check", "guess", "bootstrap", "ensurepip", "unlock"}

\* A return that gives the lock back only when the call succeeded.
ReturnKeepsLock(c, r, held) ==
    /\ pc' = [pc EXCEPT ![c] = "idle"]
    /\ result' = [result EXCEPT ![c] = r]
    /\ python' = [python EXCEPT ![c] = ""]
    /\ lockHolder' = IF held /\ r = "Ok" THEN [lockHolder EXCEPT ![target[c]] = 0]
                     ELSE lockHolder
    /\ anyFailure' = (anyFailure \/ r # "Ok")

\* Leaving create_venv: with the result r; the lock guard and the file are
\* dropped on every exit taken after the lock was acquired.
Return(c, r, held) ==
    /\ pc' = [pc EXCEPT ![c] = "idle"]
    /\ result' = [result EXCEPT ![c] = r]
    /\ python' = [python EXCEPT ![c] = ""]
    /\ lockHolder' = IF held THEN [lockHolder EXCEPT ![target[c]] = 0]
                     ELSE lockHolder
    /\ anyFailure' = (anyFailure \/ r # "Ok")

\* with_path calls create_venv(shell, venv_dir)
Call(c, p) ==
    /\ pc[c] = "idle"
    /\ calls < MaxCalls
    /\ calls' = calls + 1
    /\ pc' = [pc EXCEPT ![c] = "create_dir"]
    /\ target' = [target EXCEPT ![c] = p]
    /\ result' = [result EXCEPT ![c] = "none"]
    /\ cmds' = [cmds EXCEPT ![c] = <<>>]
    /\ heldAtCheck' = [heldAtCheck EXCEPT ![c] = FALSE]
    /\ bootOk' = [bootOk EXCEPT ![c] = FALSE]
    /\ afterBuilt' = [afterBuilt EXCEPT ![c] = p \in built]
    /\ overlap' = IF \E d \in Callers \ {c} : InCall(d) /\ target[d] = p
                  THEN overlap \cup {p} ELSE overlap
    /\ UNCHANGED <<fs, lockHolder, python, built, nBootstrap, anyFailure>>

\* sh.create_dir(path)?
CreateDir(c) ==
    /\ pc[c] = "create_dir"
    /\ \E ok \in BOOLEAN :
         IF ok
         THEN /\ pc' = [pc EXCEPT ![c] = "open"]
              /\ UNCHANGED <<result, python, lockHolder, anyFailure>>
         ELSE Return(c, "ErrXshell", FALSE)
    /\ UNCHANGED fs
    /\ UNCHANGED <<target, cmds, heldAtCheck, bootOk, calls, afterBuilt, built,
                   overlap, nBootstrap>>

\* RwLock::new(File::create(lock_path).unwrap())
OpenLockFile(c) ==
    /\ pc[c] = "open"
    /\ \E ok \in BOOLEAN :
         IF ok
         THEN /\ pc' = [pc EXCEPT ![c] = "lock"]
              /\ UNCHANGED <<result, python, lockHolder, anyFailure>>
         ELSE Return(c, "panic", FALSE)
    /\ UNCHANGED fs
    /\ UNCHANGED <<target, cmds, heldAtCheck, bootOk, calls, afterBuilt, built,
                   overlap, nBootstrap>>

\* A caller that goes on to the check without taking the lock.
AcquireLockNoWait(c) ==
    /\ pc[c] = "lock"
    /\ pc' = [pc EXCEPT ![c] = "check"]
    /\ UNCHANGED <<fs, lockHolder, target, python, result, cmds, heldAtCheck,
                   bootOk, calls, afterBuilt, built, overlap, nBootstrap,
                   anyFailure>>

\* let lock = f.write().unwrap(): granted
AcquireLock(c) ==
    /\ pc[c] = "lock"
    /\ CanAcquire(lockHolder[target[c]])
    /\ lockHolder' = [lockHolder EXCEPT ![target[c]] = c]
    /\ pc' = [pc EXCEPT ![c] = "check"]
    /\ UNCHANGED <<fs, target, python, result, cmds, heldAtCheck, bootOk, calls,
                   afterBuilt, built, overlap, nBootstrap, anyFailure>>

\* let lock = f.write().unwrap(): the lock call itself fails
LockError(c) ==
    /\ pc[c] = "lock"
    /\ Return(c, "panic", FALSE)
    /\ UNCHANGED <<fs, target, cmds, heldAtCheck, bootOk, calls, afterBuilt,
                   built, overlap, nBootstrap>>

\* if !pybin.exists()
CheckPybin(c) ==
    /\ pc[c] = "check"
    /\ heldAtCheck' = [heldAtCheck EXCEPT ![c] = lockHolder[target[c]] = c]
    /\ pc' = [pc EXCEPT ![c] = IF pybin_exists(fs[target[c]]) THEN "unlock"
                                ELSE "guess"]
    /\ UNCHANGED <<fs, lockHolder, target, python, result, cmds, bootOk, calls,
                   afterBuilt, built, overlap, nBootstrap, anyFailure>>

\* let python = guess_python(sh)?
GuessPython(c) ==
    /\ pc[c] = "guess"
    /\ \E h \in Hosts :
         LET g == guess_python(platform, h) IN
         /\ cmds' = [cmds EXCEPT ![c] = @ \o g.probes]
         /\ IF g.res.some
            THEN /\ python' = [python EXCEPT ![c] = g.res.val]
                 /\ pc' = [pc EXCEPT ![c] = "bootstrap"]
                 /\ UNCHANGED <<result, lockHolder, anyFailure>>
            ELSE Return(c, "ErrPythonNotDetected", TRUE)
    /\ UNCHANGED <<fs, target, heldAtCheck, bootOk, calls, afterBuilt, built,
                   overlap, nBootstrap>>

\* A bootstrap whose failure is ignored: the call goes on to the next step.
BootstrapIgnoresFailure(c) ==
    /\ pc[c] = "bootstrap"
    /\ nBootstrap' = [nBootstrap EXCEPT ![target[c]] = @ + 1]
    /\ cmds' = [cmds EXCEPT ![c] =
                  Append(@, IF platform = "windows" THEN "venv" ELSE "microvenv")]
    /\ \E ok \in BOOLEAN, partial \in BOOLEAN :
         /\ fs' = [fs EXCEPT ![target[c]] =
                     IF platform = "windows" THEN venv_windows(@, ok, partial)
                     ELSE microvenv(@, ok, partial)]
         /\ bootOk' = [bootOk EXCEPT ![c] = ok]
         /\ pc' = [pc EXCEPT ![c] = IF platform = "windows" THEN "unlock"
                                     ELSE "ensurepip"]
         /\ UNCHANGED <<result, python, lockHolder, anyFailure>>
    /\ UNCHANGED <<target, heldAtCheck, calls, afterBuilt, built, overlap>>

\* unix:    xshell::cmd!(sh, "{python} -c {MICROVENV_CODE} {path}").run()?
\* windows: xshell::cmd!(sh, "{python} -m venv {path}").run()?
Bootstrap(c) ==
    /\ pc[c] = "bootstrap"
    /\ nBootstrap' = [nBootstrap EXCEPT ![target[c]] = @ + 1]
    /\ cmds' = [cmds EXCEPT ![c] =
                  Append(@, IF platform = "windows" THEN "venv" ELSE "microvenv")]
    /\ \E ok \in BOOLEAN, partial \in BOOLEAN :
         /\ fs' = [fs EXCEPT ![target[c]] =
                     IF platform = "windows" THEN venv_windows(@, ok, partial)
                     ELSE microvenv(@, ok, partial)]
         /\ bootOk' = [bootOk EXCEPT ![c] = ok]
         /\ IF ok
            THEN /\ pc' = [pc EXCEPT ![c] = IF platform = "windows" THEN "unlock"
                                            ELSE "ensurepip"]
                 /\ UNCHANGED <<result, python, lockHolder, anyFailure>>
            ELSE Return(c, "ErrXshell", TRUE)
    /\ UNCHANGED <<target, heldAtCheck, calls, afterBuilt, built, overlap>>

\* xshell::cmd!(sh, "{path}/bin/python -m ensurepip").run()?
Ensurepip(c) ==
    /\ pc[c] = "ensurepip"
    /\ cmds' = [cmds EXCEPT ![c] = Append(@, "ensurepip")]
    /\ \E ok \in BOOLEAN :
         /\ fs' = [fs EXCEPT ![target[c]] = ensurepip(@, ok)]
         /\ IF ok
            THEN /\ pc' = [pc EXCEPT ![c] = "unlock"]
                 /\ UNCHANGED <<result, python, lockHolder, anyFailure>>
            ELSE Return(c, "ErrXshell", TRUE)
    /\ UNCHANGED <<target, heldAtCheck, bootOk, calls, afterBuilt, built,
                   overlap, nBootstrap>>

\* drop(lock); Ok(())
Unlock(c) ==
    /\ pc[c] = "unlock"
    /\ Return(c, "Ok", TRUE)
    /\ built' = IF cmds[c] # <<>> THEN built \cup {target[c]} ELSE built
    /\ UNCHANGED <<fs, target, cmds, heldAtCheck, bootOk, calls, afterBuilt,
                   overlap, nBootstrap>>

EnvIdle ==
    /\ shellEnv = [k \in {} |-> None]
    /\ handles = <<>>
    /\ lifo = TRUE
    /\ lastOp = [kind |-> "none"]
    /\ lastCmd = [op |-> "none"]
    /\ resolved = {}
    /\ guess = NoGuess

Init ==
    /\ platform \in {"unix", "windows"}
    /\ procEnv = [k \in {} |-> None]
    /\ fs = [p \in BuildPaths |-> EmptyDir]
    /\ lockHolder = [p \in BuildPaths |-> 0]
    /\ pc = [c \in Callers |-> "idle"]
    /\ target = [c \in Callers |-> PathA]
    /\ python = [c \in Callers |-> ""]
    /\ result = [c \in Callers |-> "none"]
    /\ cmds = [c \in Callers |-> <<>>]
    /\ heldAtCheck = [c \in Callers |-> FALSE]
    /\ bootOk = [c \in Callers |-> FALSE]
    /\ calls = 0
    /\ afterBuilt = [c \in Callers |-> FALSE]
    /\ built = {}
    /\ overlap = {}
    /\ nBootstrap = [p \in BuildPaths |-> 0]
    /\ anyFailure = FALSE
    /\ EnvIdle

others == <<platform, procEnv, envVars, resolved, guess>>

Next ==
    \/ \E c \in Callers, p \in BuildPaths : Call(c, p) /\ UNCHANGED others
    \/ \E c \in Callers : CreateDir(c) /\ UNCHANGED others
    \/ \E c \in Callers : OpenLockFile(c) /\ UNCHANGED others
    \/ \E c \in Callers : AcquireLock(c) /\ UNCHANGED others
    \/ \E c \in Callers : LockError(c) /\ UNCHANGED others
    \/ \E c \in Callers : CheckPybin(c) /\ UNCHANGED others
    \/ \E c \in Callers : GuessPython(c) /\ UNCHANGED others
    \/ \E c \in Callers : Bootstrap(c) /\ UNCHANGED others
    \/ \E c \in Callers : Ensurepip(c) /\ UNCHANGED others
    \/ \E c \in Callers : Unlock(c) /\ UNCHANGED others

Spec == Init /\ [][Next]_vars

\* The steps of caller c that the scheduler, the terminating commands and the
\* lock service make happen: every step of a call but the failure of the
\* lock call; a free lock is granted to a waiting caller.
Progress(c) ==
    \/ CreateDir(c) /\ UNCHANGED others
    \/ OpenLockFile(c) /\ UNCHANGED others
    \/ AcquireLock(c) /\ UNCHANGED others
    \/ CheckPybin(c) /\ UNCHANGED others
    \/ GuessPython(c) /\ UNCHANGED others
    \/ Bootstrap(c) /\ UNCHANGED others
    \/ Ensurepip(c) /\ UNCHANGED others
    \/ Unlock(c) /\ UNCHANGED others

\* The callers of one lock file: every call is on PathA.
FairNext ==
    \/ \E c \in Callers : Call(c, PathA) /\ UNCHANGED others
    \/ \E c \in Callers : LockError(c) /\ UNCHANGED others
    \/ \E c \in Callers : Progress(c)

FairSpec == Init /\ [][FairNext]_vars /\ \A c \in Callers : WF_vars(Progress(c))

(***************************************************************************)
(* The whole of create_venv as one call made by the thread that owns the   *)
(* Shell: every way it can end on a directory in state d, as the result,   *)
(* the directory afterwards and the commands spawned.  The lock is always  *)
(* granted in the end: another holder releases it when its call returns.   *)
(***************************************************************************)
create_venv(plat, d) ==
    LET boot == IF plat = "windows" THEN "venv" ELSE "microvenv"
        booted(ok, partial) == IF plat = "windows" THEN venv_windows(d, ok, partial)
                               ELSE microvenv(d, ok, partial)
        build(g) ==
            UNION {
                LET d3 == booted(ok, partial)
                    c3 == Append(g.probes, boot)
                IN IF ~ok THEN {[res |-> "ErrXshell", d |-> d3, cmds |-> c3]}
                   ELSE IF plat = "windows" THEN {[res |-> "Ok", d |-> d3, cmds |-> c3]}
                   ELSE {[res |-> IF pip THEN "Ok" ELSE "ErrXshell",
                          d |-> ensurepip(d3, pip),
                          cmds |-> Append(c3, "ensurepip")] : pip \in BOOLEAN}
                : ok \in BOOLEAN, partial \in BOOLEAN}
    IN {[res |-> "ErrXshell", d |-> d, cmds |-> <<>>]}      \* sh.create_dir(path)?
       \cup {[res |-> "panic", d |-> d, cmds |-> <<>>]}     \* File::create(..).unwrap()
                                                            \* and f.write().unwrap()
       \cup IF pybin_exists(d)
            THEN {[res |-> "Ok", d |-> d, cmds |-> <<>>]}
            ELSE UNION {
                LET g == guess_python(plat, h)
                IN IF g.res.some THEN build(g)
                   ELSE {[res |-> "ErrPythonNotDetected", d |-> d, cmds |-> g.probes]}
                : h \in Hosts}

(***************************************************************************)
(* The Shell's environment and the scoped handle.                          *)
(***************************************************************************)
Keys == {"VIRTUAL_ENV", "PATH", "PYTHONHOME"}
CargoKeys == {"CARGO_TARGET_DIR", "OUT_DIR", "CARGO_MANIFEST_DIR", "TMPDIR"}
Names == {"py3", "docs"}
FacadeOps == {"pip_install", "pip_upgrade", "run", "run_module"}

\* Path::display: the components joined by the separator.
RECURSIVE display(_)
display(p) ==
    IF p = <<>> THEN ""
    ELSE IF Len(p) = 1 THEN p[1]
    ELSE IF p[1] = Root THEN Root \o display(Tail(p))
    ELSE p[1] \o "/" \o display(Tail(p))

\* What commands of the shell see for a variable: the shell's own value if it
\* has one, else the process's.
EffEnv(k) == IF shellEnv[k].some THEN shellEnv[k] ELSE procEnv[k]

\* A push_env that does not keep the previous value.
push_env_forgets(env, key, val) ==
    [env |-> [env EXCEPT ![key] = Some(val)],
     guard |-> [key |-> key, old_value |-> None]]

\* Shell::push_env(key, val): sets the variable in the shell's environment
\* and returns the guard holding the previous value (None: it was absent).
push_env(env, key, val) ==
    [env |-> [env EXCEPT ![key] = Some(val)],
     guard |-> [key |-> key, old_value |-> env[key]]]

\* A guard whose drop always removes the variable.
drop_push_env_removes(env, g) == [env EXCEPT ![g.key] = None]

\* impl Drop for PushEnv: puts the previous value back, or removes the
\* variable if there was none.
drop_push_env(env, g) == [env EXCEPT ![g.key] = g.old_value]

\* Dropping the Vec<PushEnv> field _env: a Vec drops its elements in index
\* order, first pushed first.
RECURSIVE drop_env(_, _)
drop_env(env, guards) ==
    IF guards = <<>> THEN env
    ELSE drop_env(drop_push_env(env, Head(guards)), Tail(guards))

\* The variables reverted by dropping the Vec<PushEnv>, in the order their
\* guards are dropped.
RECURSIVE drop_log(_)
drop_log(guards) ==
    IF guards = <<>> THEN <<>>
    ELSE <<Head(guards).key>> \o drop_log(Tail(guards))

\* env::var("PATH").unwrap_or_else(|_| "/bin:/usr/bin".to_string()):
\* the PATH of the process environment.
current_path(proc) ==
    IF proc["PATH"].some THEN proc["PATH"].val ELSE "/bin:/usr/bin"

\* The overrides of VirtualEnv::with_path after create_venv returned Ok:
\* the shell's environment afterwards and the vector of guards.
apply_overrides(shell, proc, venv_dir) ==
    LET path == display(venv_dir) \o "/bin:" \o current_path(proc)
        e1 == push_env(shell, "VIRTUAL_ENV", display(venv_dir))
        e2 == push_env(e1.env, "PATH", path)
    IN [env |-> e2.env, guards |-> <<e1.guard, e2.guard>>]

\* cmd!: xshell::cmd!(..) with no removal.
cmd_env_remove_nothing == {}

\* macro_rules! cmd: xshell::cmd!($sh, $cmd).env_remove("PYTHONHOME")
cmd_env_remove == {"PYTHONHOME"}

\* xshell::cmd! as create_venv uses it: no change to the environment.
xshell_cmd_env_remove == {}

\* The environment of a process spawned through the shell: the process
\* environment, overlaid by the shell's, minus the command's removals.
ChildEnv(removed) == [k \in Keys |-> IF k \in removed THEN None ELSE EffEnv(k)]

Snapshot == [k \in {"VIRTUAL_ENV", "PATH"} |-> shellEnv[k]]
SnapshotOf(env) == [k \in {"VIRTUAL_ENV", "PATH"} |-> env[k]]

Live == {i \in 1..Len(handles) : handles[i].alive}
Newest == CHOOSE i \in Live : \A j \in Live : j <= i

\* A with_path that applies the overrides before it looks at the result of
\* create_venv.
ActivateOverridesFirst(venv_dir, name) ==
    /\ calls < MaxActivations
    /\ calls' = calls + 1
    /\ \E r \in create_venv(platform, fs[venv_dir]) :
         LET a == apply_overrides(shellEnv, procEnv, venv_dir) IN
         /\ fs' = [fs EXCEPT ![venv_dir] = r.d]
         /\ lastCmd' = IF r.cmds = <<>> THEN lastCmd
                       ELSE [op |-> "create_venv",
                             pythonhome |->
                                 ChildEnv(xshell_cmd_env_remove)["PYTHONHOME"]]
         /\ lastOp' = [kind |-> "with_path", res |-> r.res, pre |-> Snapshot,
                       n |-> Len(handles)]
         /\ shellEnv' = a.env
         /\ IF r.res = "Ok"
            THEN handles' = Append(handles,
                        [path |-> venv_dir, name |-> name, env |-> a.guards,
                         alive |-> TRUE, before |-> Snapshot,
                         after |-> SnapshotOf(a.env)])
            ELSE UNCHANGED handles
    /\ UNCHANGED lifo

\* VirtualEnv::with_path(shell, venv_dir); name is Some(n) when the call
\* comes from VirtualEnv::new(shell, n).
Activate(venv_dir, name) ==
    /\ calls < MaxActivations
    /\ calls' = calls + 1
    /\ \E r \in create_venv(platform, fs[venv_dir]) :
         /\ fs' = [fs EXCEPT ![venv_dir] = r.d]
         /\ lastCmd' = IF r.cmds = <<>> THEN lastCmd
                       ELSE [op |-> "create_venv",
                             pythonhome |->
                                 ChildEnv(xshell_cmd_env_remove)["PYTHONHOME"]]
         /\ lastOp' = [kind |-> "with_path", res |-> r.res, pre |-> Snapshot,
                       n |-> Len(handles)]
         /\ IF r.res = "Ok"
            THEN LET a == apply_overrides(shellEnv, procEnv, venv_dir) IN
                 /\ shellEnv' = a.env
                 /\ handles' = Append(handles,
                        [path |-> venv_dir, name |-> name, env |-> a.guards,
                         alive |-> TRUE, before |-> Snapshot,
                         after |-> SnapshotOf(a.env)])
            ELSE UNCHANGED <<shellEnv, handles>>
    /\ UNCHANGED lifo

\* pub fn with_path(shell, venv_dir)
WithPath(venv_dir) == Activate(venv_dir, None)

\* pub fn new(shell, name): find_directory(name), then with_path
New(name) == Activate(find_directory(procEnv, name), Some(name))

\* The handle goes out of scope: its field _env is dropped.
Drop(i) ==
    /\ i \in Live
    /\ shellEnv' = drop_env(shellEnv, handles[i].env)
    /\ handles' = [handles EXCEPT ![i].alive = FALSE]
    /\ lifo' = (lifo /\ i = Newest)
    /\ lastOp' = [kind |-> "drop", h |-> i, reverted |-> drop_log(handles[i].env)]
    /\ UNCHANGED <<fs, lastCmd, calls>>

\* A command of the facade, built with the cmd! macro of this crate.
Facade(i, op) ==
    /\ i \in Live
    /\ lastCmd' = [op |-> op, pythonhome |-> ChildEnv(cmd_env_remove)["PYTHONHOME"]]
    /\ UNCHANGED <<shellEnv, handles, lifo, lastOp, fs, calls>>

\* pub fn pip_install(&self, package): cmd!(self.shell, "pip3 install {package}")
PipInstall(i) == Facade(i, "pip_install")
\* pub fn pip_upgrade(&self, package)
PipUpgrade(i) == Facade(i, "pip_upgrade")
\* pub fn run(&self, code): cmd!(self.shell, "python").stdin(code)
Run(i) == Facade(i, "run")
\* pub fn run_module(&self, module, args)
RunModule(i) == Facade(i, "run_module")

BuildIdle ==
    /\ lockHolder = [p \in {} |-> 0]
    /\ pc = [c \in Callers |-> "idle"]
    /\ target = [c \in Callers |-> PathA]
    /\ python = [c \in Callers |-> ""]
    /\ result = [c \in Callers |-> "none"]
    /\ cmds = [c \in Callers |-> <<>>]
    /\ heldAtCheck = [c \in Callers |-> FALSE]
    /\ bootOk = [c \in Callers |-> FALSE]
    /\ calls = 0
    /\ afterBuilt = [c \in Callers |-> FALSE]
    /\ built = {}
    /\ overlap = {}
    /\ nBootstrap = [p \in {} |-> 0]
    /\ anyFailure = FALSE

Unset == [k \in Keys \cup CargoKeys |-> None]

\* The cargo variables of the process, for the handles of SpecEnv.
CargoSnapshots ==
    { Unset, [Unset EXCEPT !["CARGO_TARGET_DIR"] = Some(<<"target">>)] }

EnvStart(dirs) ==
    /\ fs = [p \in dirs |-> EmptyDir]
    /\ handles = <<>>
    /\ lifo = TRUE
    /\ lastOp = [kind |-> "none"]
    /\ lastCmd = [op |-> "none"]
    /\ resolved = {}
    /\ guess = NoGuess
    /\ BuildIdle

\* Shell::new(), then any VIRTUAL_ENV and PATH the user set on the shell.
InitEnv ==
    /\ platform \in {"unix", "windows"}
    /\ \E cargo \in CargoSnapshots, path \in {None, Some("/usr/local/bin:/usr/bin")} :
         procEnv = [cargo EXCEPT !["PATH"] = path]
    /\ \E ve \in {None, Some("/old/venv")}, path \in {None, Some("/opt/bin")} :
         shellEnv = [k \in Keys |-> IF k = "VIRTUAL_ENV" THEN ve
                                    ELSE IF k = "PATH" THEN path ELSE None]
    /\ EnvStart({PathRel} \cup {find_directory(procEnv, n) : n \in Names})

envOthers == <<platform, procEnv, lockHolder, pc, target, python, result, cmds,
               heldAtCheck, bootOk, afterBuilt, built, overlap, nBootstrap, anyFailure,
               resolved, guess>>

NextEnv ==
    \/ WithPath(PathRel) /\ UNCHANGED envOthers
    \/ \E n \in Names : New(n) /\ UNCHANGED envOthers
    \/ \E i \in 1..MaxActivations : Drop(i) /\ UNCHANGED envOthers

SpecEnv == InitEnv /\ [][NextEnv]_vars

\* Shell::new() in a process with or without PYTHONHOME, then any PYTHONHOME
\* the user set on the shell.
InitCmd ==
    /\ platform \in {"unix", "windows"}
    /\ \E home \in {None, Some("/opt/python")} :
         procEnv = [Unset EXCEPT !["PATH"] = Some("/usr/bin"), !["PYTHONHOME"] = home]
    /\ \E home \in {None, Some("/home/user/python")} :
         shellEnv = [k \in Keys |-> IF k = "PYTHONHOME" THEN home ELSE None]
    /\ EnvStart({PathA})

NextCmd ==
    \/ WithPath(PathA) /\ UNCHANGED envOthers
    \/ \E i \in 1..MaxActivations : Drop(i) /\ UNCHANGED envOthers
    \/ \E i \in 1..MaxActivations : PipInstall(i) /\ UNCHANGED envOthers
    \/ \E i \in 1..MaxActivations : PipUpgrade(i) /\ UNCHANGED envOthers
    \/ \E i \in 1..MaxActivations : Run(i) /\ UNCHANGED envOthers
    \/ \E i \in 1..MaxActivations : RunModule(i) /\ UNCHANGED envOthers

SpecCmd == InitCmd /\ [][NextCmd]_vars

(***************************************************************************)
(* The resolver on its own: the process environment is drawn at the start, *)
(* then find_directory is called with one name after another.              *)
(***************************************************************************)
\* let venv_dir = find_directory(name), as VirtualEnv::new calls it
FindDirectory(name) ==
    /\ resolved' = resolved \cup
           {[name |-> name, path |-> find_directory(procEnv, name)]}
    /\ UNCHANGED <<platform, procEnv, buildVars, envVars, guess>>

OutDirs ==
    { <<>>, <<Root>>, <<Root, "a">>, <<Root, "a", "out">>, <<"build", "out">>,
      <<Root, "a", "b", "out">>, <<"x", "build", "out">>,
      <<Root, "w", "target", "debug", "build", "x-1", "out">> }

InitDir ==
    /\ platform \in {"unix", "windows"}
    /\ \E ctd \in {None, Some(<<"target">>), Some(<<Root, "ct">>)},
          out \in {None} \cup {Some(o) : o \in OutDirs},
          cmd \in {None, Some(<<Root, "proj">>)},
          tmp \in {None, Some(<<Root, "var", "tmp">>)} :
         procEnv = [Unset EXCEPT !["CARGO_TARGET_DIR"] = ctd, !["OUT_DIR"] = out,
                                 !["CARGO_MANIFEST_DIR"] = cmd, !["TMPDIR"] = tmp]
    /\ shellEnv = [k \in Keys |-> None]
    /\ EnvStart({})

NextDir == \E n \in Names : FindDirectory(n)

SpecDir == InitDir /\ [][NextDir]_vars

(***************************************************************************)
(* The interpreter detection on its own: the host's answers to the four    *)
(* probes are drawn at the start, then guess_python is called.             *)
(***************************************************************************)
\* let python = guess_python(sh)?, followed on its own
GuessPythonCall ==
    /\ ~guess.called
    /\ LET g == guess_python(platform, guess.host) IN
         guess' = [host |-> guess.host, called |-> TRUE,
                   res |-> g.res, probes |-> g.probes]
    /\ UNCHANGED <<platform, procEnv, buildVars, envVars, resolved>>

InitGuess ==
    /\ platform \in {"unix", "windows"}
    /\ procEnv = Unset
    /\ shellEnv = [k \in Keys |-> None]
    /\ fs = [p \in {} |-> EmptyDir]
    /\ handles = <<>>
    /\ lifo = TRUE
    /\ lastOp = [kind |-> "none"]
    /\ lastCmd = [op |-> "none"]
    /\ resolved = {}
    /\ BuildIdle
    /\ \E h \in Hosts : guess = [host |-> h, called |-> FALSE]

NextGuess == GuessPythonCall

SpecGuess == InitGuess /\ [][NextGuess]_vars

(***************************************************************************)
(* Claims about the environment builder, checked under Spec.               *)
(***************************************************************************)
AllIdle == \A c \in Callers : pc[c] = "idle"

\* C1: concurrent create_venv calls on one path that has no bin/python yet,
\* with every filesystem operation and external command succeeding: once all
\* callers have returned, every one of them returned Ok and the bootstrap
\* command (microvenv / venv) ran exactly once for that path.
C1_BootstrapExactlyOnce ==
    \A p \in BuildPaths :
        (p \in overlap /\ ~anyFailure /\ AllIdle) =>
            /\ nBootstrap[p] = 1
            /\ \A c \in Callers : target[c] = p => result[c] \in {"Ok", "none"}

\* C1 restricted to the non-Windows variant of create_venv.
C1_UnixBootstrapExactlyOnce ==
    platform = "unix" => C1_BootstrapExactlyOnce

C1_UnixWitness ==
    /\ platform = "unix" /\ PathA \in overlap /\ ~anyFailure /\ AllIdle
    /\ \E c1 \in Callers, c2 \in Callers :
          /\ c1 # c2 /\ target[c1] = PathA /\ target[c2] = PathA
          /\ result[c1] = "Ok" /\ result[c2] = "Ok"

\* C2: at most one caller per path is inside the critical section (between
\* acquiring the write lock and dropping it).
C2_MutualExclusion ==
    \A c1 \in Callers, c2 \in Callers :
        (c1 # c2 /\ target[c1] = target[c2]
           /\ pc[c1] \in Critical /\ pc[c2] \in Critical) => FALSE

\* Two callers are inside create_venv for the same path, one in its critical
\* section while the other waits for the lock.
C2_Witness ==
    \E c1 \in Callers, c2 \in Callers :
        /\ c1 # c2 /\ target[c1] = target[c2]
        /\ pc[c1] = "bootstrap" /\ pc[c2] = "lock"

\* C5: once a call has returned Ok after building the environment at a path,
\* a later call on that path spawns no probe, no bootstrap and no ensurepip
\* command, on the non-Windows and on the Windows variant.
C5_NoWorkAfterBuilt ==
    \A c \in Callers : afterBuilt[c] => cmds[c] = <<>>

\* C5 restricted to the non-Windows variant.
C5_UnixNoWorkAfterBuilt ==
    platform = "unix" => C5_NoWorkAfterBuilt

C5_UnixWitness ==
    \E c \in Callers :
        /\ platform = "unix" /\ afterBuilt[c]
        /\ pc[c] = "idle" /\ result[c] = "Ok"

\* C12: every failure inside create_venv (creating the directory, opening
\* the lock file, taking the lock, no interpreter, a failing bootstrap or
\* ensurepip command) reaches the caller as a returned Error value,
\* PythonNotDetected or Xshell; a call ends in no other way.
C12_FailuresAreTypedErrors ==
    \A c \in Callers :
        result[c] \in {"none", "Ok", "ErrXshell", "ErrPythonNotDetected"}

\* C13: whenever create_venv has returned, by any path, the caller holds no
\* lock (a held lock belongs to a caller inside its critical section on that
\* path), and a caller waiting for the lock eventually acquires it, unless
\* its own lock call fails: no builder, failing or not, leaves another
\* blocked forever.
C13_LockReleasedOnReturn ==
    /\ [](\A p \in BuildPaths :
             lockHolder[p] # 0 =>
                 pc[lockHolder[p]] \in Critical /\ target[lockHolder[p]] = p)
    /\ \A c \in Callers :
          (pc[c] = "lock") ~> (pc[c] = "check" \/ result[c] = "panic")

\* One caller's build failed (a command it spawned exited non-zero) and the
\* other caller, inside create_venv for the same path at the same time, now
\* holds the lock.
C13_Witness ==
    \E c \in Callers, d \in Callers :
        /\ c # d /\ target[c] = target[d] /\ target[c] \in overlap
        /\ pc[c] = "idle" /\ result[c] = "ErrXshell" /\ cmds[c] # <<>>
        /\ pc[d] = "check" /\ lockHolder[target[d]] = d

\* The commands caller c's current or last call has spawned include x.
Has(c, x) == \E i \in 1..Len(cmds[c]) : cmds[c][i] = x

\* Caller c's current or last call has tested pybin.exists().
PastCheck(c) ==
    \/ pc[c] \in {"guess", "bootstrap", "ensurepip", "unlock"}
    \/ pc[c] = "idle" /\ result[c] \in {"Ok", "ErrPythonNotDetected"}
    \/ pc[c] = "idle" /\ cmds[c] # <<>>

\* C14: the test of bin/python is made only by a caller that holds the
\* exclusive lock of its path, in every call, also when the environment
\* already exists: a caller about to test holds the lock, and every caller
\* that went on to build or to skip tested while holding it.
C14_CheckUnderLock ==
    \A c \in Callers :
        /\ pc[c] = "check" => lockHolder[target[c]] = c
        /\ PastCheck(c) => heldAtCheck[c]

\* A call that started after the environment was built has tested, under
\* the lock, and skipped the build.
C14_Witness ==
    \E c \in Callers :
        /\ platform = "unix" /\ afterBuilt[c] /\ pc[c] = "unlock"
        /\ heldAtCheck[c] /\ cmds[c] = <<>> /\ lockHolder[target[c]] = c

\* C17: on the non-Windows variant, within one call, ensurepip is run if and
\* only if the microvenv command was run and exited zero in that call, as
\* the very next command, and both are spawned by the holder of the lock;
\* on the Windows variant venv is run instead and ensurepip never.
C17_EnsurepipFollowsBootstrap ==
    \A c \in Callers :
        /\ pc[c] \in {"bootstrap", "ensurepip"} => lockHolder[target[c]] = c
        /\ platform = "unix" =>
              /\ ~Has(c, "venv")
              /\ \A i \in 1..Len(cmds[c]) :
                    cmds[c][i] = "ensurepip" =>
                        i > 1 /\ cmds[c][i - 1] = "microvenv"
              /\ Has(c, "ensurepip") => bootOk[c]
              /\ bootOk[c] => Has(c, "microvenv")
              /\ (bootOk[c] /\ pc[c] # "ensurepip") => Has(c, "ensurepip")
              /\ (Has(c, "microvenv") /\ ~bootOk[c]) =>
                    pc[c] = "idle" /\ result[c] = "ErrXshell"
        /\ platform = "windows" =>
              /\ ~Has(c, "ensurepip") /\ ~Has(c, "microvenv")
              /\ pc[c] # "ensurepip"
              /\ bootOk[c] => Has(c, "venv")

\* A non-Windows call ran microvenv, which exited zero, then ensurepip, which
\* failed.
C17_Witness ==
    \E c \in Callers :
        /\ platform = "unix" /\ pc[c] = "idle" /\ result[c] = "ErrXshell"
        /\ bootOk[c] /\ Len(cmds[c]) >= 2
        /\ cmds[c][Len(cmds[c])] = "ensurepip"
        /\ cmds[c][Len(cmds[c]) - 1] = "microvenv"

\* C18: on the non-Windows variant, over any sequence of calls on a path
\* whose commands may fail, a call returns Ok only for an environment whose
\* bootstrap and ensurepip have both succeeded, in this call or an earlier
\* one.
C18_OkImpliesComplete ==
    platform = "unix" =>
        \A c \in Callers :
            (pc[c] = "idle" /\ result[c] = "Ok") =>
                fs[target[c]].pybin /\ fs[target[c]].pip

(***************************************************************************)
(* Claims about the scoped handle, checked under SpecEnv.                  *)
(***************************************************************************)
\* C3: after with_path succeeded and the handle it returned is dropped, the
\* shell's VIRTUAL_ENV and PATH are what they were immediately before that
\* with_path call, absent if they were absent.
C3_RestoredOnDrop ==
    lastOp.kind = "drop" =>
        /\ Snapshot = handles[lastOp.h].before
        /\ \A k \in {"VIRTUAL_ENV", "PATH"} :
              EffEnv(k) = IF handles[lastOp.h].before[k].some
                          THEN handles[lastOp.h].before[k] ELSE procEnv[k]

\* A handle was dropped on a shell that had PATH set and VIRTUAL_ENV absent
\* before the handle was created.
C3_Witness ==
    /\ lastOp.kind = "drop"
    /\ handles[lastOp.h].before["VIRTUAL_ENV"] = None
    /\ handles[lastOp.h].before["PATH"] = Some("/opt/bin")
    /\ handles[lastOp.h].after["VIRTUAL_ENV"].some

\* C4: handles dropped innermost first: dropping the newest handle restores
\* VIRTUAL_ENV and PATH to the values the next older live handle activated
\* (the values immediately before the dropped one was applied), and dropping
\* the last live handle restores the values from before the first handle.
C4_NestedRestore ==
    (lastOp.kind = "drop" /\ lifo) =>
        IF Live # {} THEN Snapshot = handles[Newest].after
        ELSE Snapshot = handles[1].before

\* h1 then h2 were created, h2 was dropped while h1 was alive, then h1.
C4_Witness ==
    /\ Len(handles) >= 2 /\ lifo /\ Live = {}
    /\ lastOp.kind = "drop" /\ lastOp.h = 1
    /\ handles[2].before = handles[1].after
    /\ handles[1].before["PATH"].some

\* C7: handles made by VirtualEnv::new under one process environment: the
\* same name gives the same path; distinct names give distinct paths with
\* the same base that differ only in the last component venv-<name>, and
\* the handles set distinct VIRTUAL_ENV values and distinct PATH values.
C7_DistinctNames ==
    \A i \in 1..Len(handles), j \in 1..Len(handles) :
        (handles[i].name.some /\ handles[j].name.some) =>
            LET pi == handles[i].path
                pj == handles[j].path
            IN IF handles[i].name = handles[j].name THEN pi = pj
               ELSE /\ pi # pj
                    /\ Len(pi) = Len(pj)
                    /\ SubSeq(pi, 1, Len(pi) - 1) = SubSeq(pj, 1, Len(pj) - 1)
                    /\ pi[Len(pi)] = "venv-" \o handles[i].name.val
                    /\ pj[Len(pj)] = "venv-" \o handles[j].name.val
                    /\ handles[i].after["VIRTUAL_ENV"] # handles[j].after["VIRTUAL_ENV"]
                    /\ handles[i].after["PATH"] # handles[j].after["PATH"]

\* Two live handles made by VirtualEnv::new with distinct names.
C7_Witness ==
    \E i \in Live, j \in Live :
        /\ handles[i].name.some /\ handles[j].name.some
        /\ handles[i].name # handles[j].name

\* The absolute form of a path: itself if absolute, else under the current
\* directory.
Cwd == <<Root, "work">>
Absolute(p) == IF IsAbsolute(p) THEN p ELSE Cwd \o p

\* C8: while a handle is the most recently applied one, the shell's
\* VIRTUAL_ENV is the absolute form of the path it was created with, for
\* relative paths too.
C8_VirtualEnvAbsolute ==
    (Live # {} /\ lifo) =>
        shellEnv["VIRTUAL_ENV"] = Some(display(Absolute(handles[Newest].path)))

\* C8 as the code has it: VIRTUAL_ENV is the path as it was given.
C8_VirtualEnvAsGiven ==
    (Live # {} /\ lifo) =>
        shellEnv["VIRTUAL_ENV"] = Some(display(handles[Newest].path))

\* The PATH a command of the shell sees, given the shell's own PATH value.
ShellPathBefore(own) ==
    IF own.some THEN own.val
    ELSE IF procEnv["PATH"].some THEN procEnv["PATH"].val
    ELSE "/bin:/usr/bin"

\* C9: after with_path(shell, path) succeeded, the shell's PATH is
\* "<path>/bin:" followed by the PATH that was current for that shell
\* immediately before the activation ("/bin:/usr/bin" if there was none);
\* a second handle prefixes the PATH the first one set.
C9_PathPrefixesShellPath ==
    (lastOp.kind = "with_path" /\ lastOp.res = "Ok") =>
        shellEnv["PATH"] =
            Some(display(handles[Len(handles)].path) \o "/bin:"
                 \o ShellPathBefore(lastOp.pre["PATH"]))

\* C9 as the code has it: the prefix goes onto the PATH of the process.
C9_PathPrefixesProcessPath ==
    (lastOp.kind = "with_path" /\ lastOp.res = "Ok") =>
        shellEnv["PATH"] =
            Some(display(handles[Len(handles)].path) \o "/bin:"
                 \o ShellPathBefore(None))

\* C15: dropping a handle reverts its overrides in the reverse of the order
\* they were applied: PATH (applied second) first, then VIRTUAL_ENV.
C15_RevertedInReverse ==
    lastOp.kind = "drop" => lastOp.reverted = <<"PATH", "VIRTUAL_ENV">>

\* C15 as the code has it: the guards are dropped in the order they were
\* pushed, VIRTUAL_ENV first, then PATH.
C15_RevertedInPushOrder ==
    lastOp.kind = "drop" => lastOp.reverted = <<"VIRTUAL_ENV", "PATH">>

\* C16: when with_path returns an error, the shell's VIRTUAL_ENV and PATH are
\* what they were before the call and no handle was made; a handle is made,
\* and the overrides applied, exactly when create_venv returned Ok.
C16_NoOverrideOnError ==
    lastOp.kind = "with_path" =>
        IF lastOp.res \in {"ErrXshell", "ErrPythonNotDetected"}
        THEN Snapshot = lastOp.pre /\ Len(handles) = lastOp.n
        ELSE lastOp.res = "Ok" =>
                /\ Len(handles) = lastOp.n + 1
                /\ Snapshot = handles[Len(handles)].after
                /\ handles[Len(handles)].before = lastOp.pre
                /\ shellEnv["VIRTUAL_ENV"].some /\ shellEnv["PATH"].some

\* With one handle live, a second with_path failed because no interpreter
\* was found.
C16_Witness ==
    /\ lastOp.kind = "with_path" /\ lastOp.res = "ErrPythonNotDetected"
    /\ Len(handles) = 1 /\ Live = {1}
    /\ shellEnv["VIRTUAL_ENV"] = handles[1].after["VIRTUAL_ENV"]

\* C19: two handles h1, h2 activated in that order on one shell and both
\* dropped, in either order: the shell's VIRTUAL_ENV and PATH are the values
\* from before h1 was activated.
C19_BothDroppedRestores ==
    (Len(handles) = 2 /\ Live = {} /\ handles[2].before = handles[1].after) =>
        Snapshot = handles[1].before

(***************************************************************************)
(* Claims about the command facade, checked under SpecCmd.                 *)
(***************************************************************************)
\* C10: every process spawned by run, run_module, pip_install and
\* pip_upgrade has no PYTHONHOME in its environment, whatever PYTHONHOME is
\* in the shell's or the process's environment, on either platform.
C10_NoPythonHome ==
    lastCmd.op \in FacadeOps => lastCmd.pythonhome = None

\* A facade command was spawned from a shell whose own environment and whose
\* process environment both set PYTHONHOME.
C10_Witness ==
    /\ lastCmd.op = "run_module"
    /\ shellEnv["PYTHONHOME"].some
    /\ procEnv["PYTHONHOME"].some

(***************************************************************************)
(* Claims about the resolver, checked under SpecDir.                       *)
(***************************************************************************)
\* The number of ancestors Path::parent can walk up from p.
Depth(p) == IF IsAbsolute(p) THEN Len(p) - 1 ELSE Len(p)
HasThirdAncestor(o) == o.some /\ Depth(o.val) >= 3

\* C6: the base directory is CARGO_TARGET_DIR if set; else the third
\* ancestor of OUT_DIR if OUT_DIR is set and has three parent levels; else
\* CARGO_MANIFEST_DIR/target if CARGO_MANIFEST_DIR is set; else the
\* temporary directory; the result is the base plus the one component
\* venv-<name>.
C6_BasePriority ==
    \A r \in resolved :
        LET ctd == procEnv["CARGO_TARGET_DIR"]
            out == procEnv["OUT_DIR"]
            cmd == procEnv["CARGO_MANIFEST_DIR"]
            base == SubSeq(r.path, 1, Len(r.path) - 1)
        IN /\ Len(r.path) >= 1
           /\ r.path[Len(r.path)] = "venv-" \o r.name
           /\ ctd.some => base = ctd.val
           /\ (~ctd.some /\ HasThirdAncestor(out)) =>
                 base = SubSeq(out.val, 1, Len(out.val) - 3)
           /\ (~ctd.some /\ ~HasThirdAncestor(out) /\ cmd.some) =>
                 base = cmd.val \o <<"target">>
           /\ (~ctd.some /\ ~HasThirdAncestor(out) /\ ~cmd.some) =>
                 base = temp_dir(procEnv)

\* find_directory was called with OUT_DIR set but fewer than three levels
\* deep and CARGO_MANIFEST_DIR set.
C6_Witness ==
    /\ resolved # {}
    /\ ~procEnv["CARGO_TARGET_DIR"].some
    /\ procEnv["OUT_DIR"] = Some(<<Root, "a", "out">>)
    /\ procEnv["CARGO_MANIFEST_DIR"].some

(***************************************************************************)
(* Claims about the interpreter detection, checked under SpecGuess.        *)
(***************************************************************************)
\* The candidates in the order the detection is specified to try them.
Candidates(plat) ==
    (IF plat = "windows" THEN <<"python3.exe", "python.exe">> ELSE <<>>)
        \o <<"python3", "python">>

\* Does the candidate match on the host: python3(.exe) if its probe exits
\* zero, python(.exe) if its probe runs and prints "Python 3.".
Matches(h, cand) ==
    IF cand = "python3.exe" THEN h.python3exe
    ELSE IF cand = "python.exe" THEN h.pythonexe = "py3"
    ELSE IF cand = "python3" THEN h.python3
    ELSE h.python = "py3"

\* C11: guess_python returns the first candidate, in the order python3.exe,
\* python.exe (Windows only), python3, python, that matches; it has probed
\* exactly the candidates up to and including that one, in that order; a
\* python or python.exe that does not print "Python 3." is never returned;
\* with no match the result is the PythonNotDetected error after all
\* candidates were probed.
C11_FirstMatchWins ==
    guess.called =>
        LET cs == Candidates(platform)
            hits == {i \in 1..Len(cs) : Matches(guess.host, cs[i])}
            first == CHOOSE i \in hits : \A j \in hits : i <= j
            probed(n) == [j \in 1..n |-> cs[j] \o " --version"]
        IN /\ IF hits = {}
              THEN guess.res = None /\ guess.probes = probed(Len(cs))
              ELSE guess.res = Some(cs[first]) /\ guess.probes = probed(first)
           /\ guess.res = Some("python") => guess.host.python = "py3"
           /\ guess.res = Some("python.exe") => guess.host.pythonexe = "py3"
           /\ platform = "unix" => guess.res \notin {Some("python3.exe"), Some("python.exe")}

\* On Windows, python3.exe and python3 fail, python.exe is a Python 2, and
\* the last candidate python is a Python 3: it is the one returned.
C11_Witness ==
    /\ guess.called /\ platform = "windows"
    /\ ~guess.host.python3exe /\ guess.host.pythonexe = "py2"
    /\ ~guess.host.python3 /\ guess.host.python = "py3"
    /\ guess.res = Some("python") /\ Len(guess.probes) = 4

====
